---- MODULE Spec2Model ----
(***************************************************************************)
(* Canvas state model of the page builder (model/Canvas.ts): the Backbone  *)
(* model that owns the active frame collection and the viewport (zoom,     *)
(* offset, pointers), reacts to page-select and device events of the       *)
(* editor and copies the selected device's dimensions onto a frame.        *)
(*                                                                         *)
(* Every handler runs synchronously to completion (single-threaded event   *)
(* loop), so each one is a single action.  The order of the collaborator   *)
(* calls a handler makes is kept in `calls`, and the handler invocation    *)
(* itself (name and arguments) in `handler`.                               *)
(***************************************************************************)
EXTENDS Integers, Sequences, FiniteSets

(* ----------------------------- bounds ---------------------------------- *)
\* zoom values written by callers range over -MaxZoomIn..MaxZoomIn and the default
MaxZoomIn == 2
\* offsets written by callers range over 0..MaxOffset
MaxOffset == 1
\* devices' dimension presets range over 1..MaxDim
MaxDim == 2

(* --------------------------- the editor's world ------------------------ *)
NoPage == 0
NoFrame == 0
NoDevice == 0
NoOptions == "none"

Pages == {1, 2, 3}
Frames == {1, 2, 3}
Devices == {1}
\* the collection created by the constructor (new Frames(module)), owned by no page
Placeholder == 0
CollIds == {Placeholder} \cup Pages

\* page 1 holds [F1, F2], page 2 holds [F3], page 3 reports no frames
PageFrames(c) ==
  CASE c = 1 -> <<1, 2>>
    [] c = 2 -> <<3>>
    [] OTHER -> <<>>

\* a dimension preset
Dim(k) == [width |-> 10 * k + 1, height |-> 10 * k + 2, minHeight |-> 10 * k + 3]
\* the dimensions a frame was created with
FrameInit(f) == [width |-> 100 * f + 1, height |-> 100 * f + 2, minHeight |-> 100 * f + 3]

WriteOptions == {"user", "prog"}
Coords == {[x |-> 0, y |-> 0], [x |-> 1, y |-> 1]}
DEFAULT_COORDS == [x |-> 0, y |-> 0]
\* the script and style lists of the module's config
Configs == {[scripts |-> <<"a.js">>, styles |-> <<>>], [scripts |-> <<>>, styles |-> <<"a.css">>]}
ZoomInputs == ((0 - MaxZoomIn) .. MaxZoomIn) \cup {100}

VARIABLES
  frames,        \* attribute 'frames': id of the active frame collection
  zoom, x, y,    \* attributes zoom, x, y
  pointer,       \* attribute pointer (world space)
  pointerScreen, \* attribute pointerScreen
  scripts, styles, \* attributes scripts, styles
  config,        \* module.config: the script and style lists handed to the constructor
  colls,         \* member frames of every frame collection
  frameAttrs,    \* width/height/minHeight of every frame
  undo,          \* number of entries of the undo history
  fault,         \* a handler ended in an uncaught TypeError
  device,        \* em.getDeviceModel(): the selected device or NoDevice
  deviceAttrs,   \* attributes of every device
  currentFrame,  \* em.getCurrentFrameModel(): a frame or NoFrame
  readyCanvas,   \* em.get('readyCanvas')
  selected,      \* the page current in the editor, or NoPage
  inited,        \* init() has run
  handler,       \* the last handler invoked, with its arguments
  calls          \* the collaborator calls and notifications of that handler, in order

canvasVars == <<frames, zoom, x, y, pointer, pointerScreen, scripts, styles>>
viewVars == <<zoom, x, y, pointer, pointerScreen>>
emVars == <<config, device, deviceAttrs, currentFrame, readyCanvas, selected>>
vars == <<frames, zoom, x, y, pointer, pointerScreen, scripts, styles, config, colls,
          frameAttrs, undo, fault, device, deviceAttrs, currentFrame, readyCanvas,
          selected, inited, handler, calls>>

(* ------------------------------ helpers -------------------------------- *)
Max(a, b) == IF a >= b THEN a ELSE b
Range(s) == {s[i] : i \in 1 .. Len(s)}
\* one collaborator call or notification
Call(op, target, opt) == [op |-> op, target |-> target, opt |-> opt]
\* a handler invocation: page/prev for page events, frame for device sync, v/opt for writes
Invocation(op, page, prev, frame, v, opt) ==
  [op |-> op, page |-> page, prev |-> prev, frame |-> frame, v |-> v, opt |-> opt]
\* positions of the calls of `log` that satisfy op/target
Positions(log, op, target) == {i \in 1 .. Len(log) : log[i].op = op /\ log[i].target = target}
PositionsOf(log, op) == {i \in 1 .. Len(log) : log[i].op = op}

(* ------------------------- external collaborators ---------------------- *)
\* Page.getFrames(): the page's own frame collection
getFrames(page) == page
\* Page.getMainFrame(): the first frame of the page's collection, if any
getMainFrame(w, page) ==
  IF Len(w.colls[getFrames(page)]) > 0 THEN w.colls[getFrames(page)][1] ELSE NoFrame
getDeviceModel(w) == w.device
getCurrentFrameModel(w) == w.currentFrame

\* Frame.set(attrs, opts): one batched write; the undo history records a change
\* unless the write carries noUndo
FrameSet(w, f, attrs, noUndo) ==
  [w EXCEPT !.frameAttrs[f] = attrs,
            !.undo = IF noUndo \/ w.frameAttrs[f] = attrs THEN @ ELSE @ + 1,
            !.calls = Append(@, Call("frame.set", f, IF noUndo THEN "noUndo" ELSE "undo"))]

(* ------------------------------ Canvas --------------------------------- *)
\* what the page and device handlers read and write, at the start of a handler
World == [frames |-> frames, colls |-> colls, frameAttrs |-> frameAttrs,
          undo |-> undo, fault |-> fault, device |-> device, deviceAttrs |-> deviceAttrs,
          currentFrame |-> currentFrame, readyCanvas |-> readyCanvas,
          calls |-> <<>>]

\* the frame updateDevice acts on
ResolveFrame(w, optsFrame) ==
  IF optsFrame # NoFrame THEN optsFrame ELSE getCurrentFrameModel(w)

\* variant: the write is not flagged noUndo
updateDevice_Tracked(w, optsFrame) ==
  LET dev == getDeviceModel(w)
      frame == ResolveFrame(w, optsFrame)
  IN  IF frame # NoFrame /\ dev # NoDevice
      THEN FrameSet(w, frame,
                    [width |-> w.deviceAttrs[dev].width,
                     height |-> w.deviceAttrs[dev].height,
                     minHeight |-> w.deviceAttrs[dev].minHeight], FALSE)
      ELSE w

\* variant: the guard is `frame || device`; the missing one is then dereferenced
updateDevice_OrGuard(w, optsFrame) ==
  LET dev == getDeviceModel(w)
      frame == ResolveFrame(w, optsFrame)
  IN  IF frame # NoFrame \/ dev # NoDevice
      THEN IF frame # NoFrame /\ dev # NoDevice
           THEN FrameSet(w, frame,
                         [width |-> w.deviceAttrs[dev].width,
                          height |-> w.deviceAttrs[dev].height,
                          minHeight |-> w.deviceAttrs[dev].minHeight], TRUE)
           ELSE [w EXCEPT !.fault = TRUE]
      ELSE w

\* variant: width is destructured from the frame's own height
updateDevice_Mix(w, optsFrame) ==
  LET dev == getDeviceModel(w)
      frame == ResolveFrame(w, optsFrame)
  IN  IF frame # NoFrame /\ dev # NoDevice
      THEN FrameSet(w, frame,
                    [width |-> w.frameAttrs[frame].height,
                     height |-> w.deviceAttrs[dev].height,
                     minHeight |-> w.deviceAttrs[dev].minHeight], TRUE)
      ELSE w

\* variant: the sync also announces a zoom change
updateDevice_Notifies(w, optsFrame) ==
  LET dev == getDeviceModel(w)
      frame == ResolveFrame(w, optsFrame)
  IN  IF frame # NoFrame /\ dev # NoDevice
      THEN [FrameSet(w, frame,
                     [width |-> w.deviceAttrs[dev].width,
                      height |-> w.deviceAttrs[dev].height,
                      minHeight |-> w.deviceAttrs[dev].minHeight], TRUE)
              EXCEPT !.calls = Append(@, Call("canvas:zoom", 0, NoOptions))]
      ELSE w

updateDevice(w, optsFrame) ==
  LET dev == getDeviceModel(w)
      frame == ResolveFrame(w, optsFrame)
  IN  IF frame # NoFrame /\ dev # NoDevice
      THEN FrameSet(w, frame,
                    [width |-> w.deviceAttrs[dev].width,
                     height |-> w.deviceAttrs[dev].height,
                     minHeight |-> w.deviceAttrs[dev].minHeight], TRUE)
      ELSE w

\* prev?.getFrames().map((frame) => frame.disable())
DisableAll(w, prev) ==
  IF prev = NoPage THEN w
  ELSE [w EXCEPT !.calls = @ \o [i \in 1 .. Len(w.colls[getFrames(prev)]) |->
                                   Call("frame.disable", w.colls[getFrames(prev)][i], NoOptions)]]

\* variant: the active collection is refilled in place with the other one's frames
SetFrames_InPlace(w, coll) ==
  [w EXCEPT !.colls[w.frames] = w.colls[coll],
            !.calls = Append(@, Call("set:frames", w.frames, NoOptions))]

\* this.set('frames', value)
SetFrames(w, coll) ==
  [w EXCEPT !.frames = coll, !.calls = Append(@, Call("set:frames", coll, NoOptions))]

\* variant: the interaction is stopped after the frames are disabled
_pageUpdated_StopAfterDisable(w, page, prev) ==
  LET w1 == [w EXCEPT !.calls = Append(@, Call("em.setSelected", 0, NoOptions))]
      w2 == DisableAll(w1, prev)
      w3 == IF w2.readyCanvas
            THEN [w2 EXCEPT !.calls = Append(@, Call("em.stopDefault", 0, NoOptions))]
            ELSE w2
      w4 == SetFrames(w3, getFrames(page))
  IN  updateDevice(w4, getMainFrame(w4, page))

\* variant: the new collection is installed before the old frames are disabled
_pageUpdated_InstallFirst(w, page, prev) ==
  LET w1 == [w EXCEPT !.calls = Append(@, Call("em.setSelected", 0, NoOptions))]
      w2 == IF w1.readyCanvas
            THEN [w1 EXCEPT !.calls = Append(@, Call("em.stopDefault", 0, NoOptions))]
            ELSE w1
      w3 == SetFrames(w2, getFrames(page))
      w4 == DisableAll(w3, prev)
  IN  updateDevice(w4, getMainFrame(w4, page))

\* variant: stopDefault is called whether the canvas is ready or not
_pageUpdated_AlwaysStop(w, page, prev) ==
  LET w1 == [w EXCEPT !.calls = Append(@, Call("em.setSelected", 0, NoOptions))]
      w2 == [w1 EXCEPT !.calls = Append(@, Call("em.stopDefault", 0, NoOptions))]
      w3 == DisableAll(w2, prev)
      w4 == SetFrames(w3, getFrames(page))
  IN  updateDevice(w4, getMainFrame(w4, page))

\* variant: the handler returns early when there is no previous page
_pageUpdated_SkipWithoutPrev(w, page, prev) ==
  LET w1 == [w EXCEPT !.calls = Append(@, Call("em.setSelected", 0, NoOptions))]
      w2 == IF w1.readyCanvas
            THEN [w1 EXCEPT !.calls = Append(@, Call("em.stopDefault", 0, NoOptions))]
            ELSE w1
      w3 == DisableAll(w2, prev)
      w4 == SetFrames(w3, getFrames(page))
  IN  IF prev = NoPage THEN w2 ELSE updateDevice(w4, getMainFrame(w4, page))

\* variant: the device sync at the end is missing
_pageUpdated_NoSync(w, page, prev) ==
  LET w1 == [w EXCEPT !.calls = Append(@, Call("em.setSelected", 0, NoOptions))]
      w2 == IF w1.readyCanvas
            THEN [w1 EXCEPT !.calls = Append(@, Call("em.stopDefault", 0, NoOptions))]
            ELSE w1
      w3 == DisableAll(w2, prev)
  IN  SetFrames(w3, getFrames(page))

_pageUpdated(w, page, prev) ==
  LET w1 == [w EXCEPT !.calls = Append(@, Call("em.setSelected", 0, NoOptions))]
      w2 == IF w1.readyCanvas
            THEN [w1 EXCEPT !.calls = Append(@, Call("em.stopDefault", 0, NoOptions))]
            ELSE w1
      w3 == DisableAll(w2, prev)
      w4 == SetFrames(w3, getFrames(page))
  IN  updateDevice(w4, getMainFrame(w4, page))

\* _pageUpdated(page, prev) when a listener of the events em.setSelected()
\* triggers selects page2: PagesEvents.select(page2, page) is emitted and
\* handled synchronously, inside the run for page, which then goes on
_pageUpdatedReentered(w, page, prev, page2) ==
  LET w1 == [w EXCEPT !.calls = Append(@, Call("em.setSelected", 0, NoOptions))]
      wn == _pageUpdated(w1, page2, page)
      w2 == IF wn.readyCanvas
            THEN [wn EXCEPT !.calls = Append(@, Call("em.stopDefault", 0, NoOptions))]
            ELSE wn
      w3 == DisableAll(w2, prev)
      w4 == SetFrames(w3, getFrames(page))
  IN  updateDevice(w4, getMainFrame(w4, page))

\* variant: the main frame is not passed to the device sync
init_CurrentFrame(w, mainPage) ==
  LET w1 == SetFrames(w, getFrames(mainPage))
  IN  updateDevice(w1, NoFrame)

\* mainPage is the page em.Pages._initPage() returns
init(w, mainPage) ==
  LET w1 == SetFrames(w, getFrames(mainPage))
  IN  updateDevice(w1, getMainFrame(w1, mainPage))

(* ------------------------------ viewport ------------------------------- *)
RECURSIVE SetZoom(_, _, _, _)

\* variant: the clamp tests `zoom < 0`
onZoomChange_ClampBelowZero(z, log, options) ==
  LET r == IF z < 0 THEN SetZoom(z, log, 1, NoOptions) ELSE [zoom |-> z, log |-> log]
  IN  [zoom |-> r.zoom, log |-> Append(r.log, Call("canvas:zoom", r.zoom, options))]

\* variant: the handler returns right after the clamp correction
onZoomChange_ClampReturns(z, log, options) ==
  IF z < 1 THEN SetZoom(z, log, 1, NoOptions)
  ELSE [zoom |-> z, log |-> Append(log, Call("canvas:zoom", z, options))]

\* variant: the notification is broadcast before the clamp
onZoomChange_BroadcastFirst(z, log, options) ==
  LET l1 == Append(log, Call("canvas:zoom", z, options))
  IN  IF z < 1 THEN SetZoom(z, l1, 1, NoOptions) ELSE [zoom |-> z, log |-> l1]

\* handler of change:zoom; z is the stored zoom when the handler runs
onZoomChange(z, log, options) ==
  LET r == IF z < 1 THEN SetZoom(z, log, 1, NoOptions) ELSE [zoom |-> z, log |-> log]
  IN  [zoom |-> r.zoom, log |-> Append(r.log, Call("canvas:zoom", r.zoom, options))]

\* this.set('zoom', v, options): a change event is fired only when the value changes
SetZoom(z, log, v, options) ==
  IF v = z THEN [zoom |-> z, log |-> log] ELSE onZoomChange(v, log, options)

\* variant: the handler triggers nothing
onCoordsChange_Silent(log) == log

onCoordsChange(log) == Append(log, Call("canvas:coords", 0, NoOptions))

onPointerChange(log) == Append(log, Call("canvas:pointer", 0, NoOptions))

\* this.set({x, y}, options): one change event per attribute that changed
SetCoords(log, nx, ny) ==
  LET l1 == IF nx # x THEN onCoordsChange(log) ELSE log
  IN  IF ny # y THEN onCoordsChange(l1) ELSE l1

World_ == "World"
Screen_ == "Screen"
\* variant: the test of the type is inverted
getPointerCoords_Inverted(type) == IF type # World_ THEN pointer ELSE pointerScreen

getPointerCoords(type) == IF type = World_ THEN pointer ELSE pointerScreen
\* getPointerCoords(): the parameter defaults to CoordinatesTypes.World
getPointerCoordsDefault == getPointerCoords(World_)

(* ------------------------------ states --------------------------------- *)
Idle == Invocation("none", NoPage, NoPage, NoFrame, 0, NoOptions)

\* variant: the constructor does not hand the config's lists to super()
Init_DefaultsOnly ==
  /\ frames = Placeholder
  /\ zoom = 100
  /\ x = 0
  /\ y = 0
  /\ pointer = DEFAULT_COORDS
  /\ pointerScreen = DEFAULT_COORDS
  /\ config \in Configs
  /\ scripts = <<>>
  /\ styles = <<>>
  /\ colls = [c \in CollIds |-> PageFrames(c)]
  /\ frameAttrs = [f \in Frames |-> FrameInit(f)]
  /\ undo = 0
  /\ fault = FALSE
  /\ device = NoDevice
  /\ deviceAttrs = [d \in Devices |-> Dim(d)]
  /\ currentFrame = NoFrame
  /\ readyCanvas = FALSE
  /\ selected = NoPage
  /\ inited = FALSE
  /\ handler = Idle
  /\ calls = <<>>

\* defaults() and the constructor
Init ==
  /\ frames = Placeholder
  /\ zoom = 100
  /\ x = 0
  /\ y = 0
  /\ pointer = DEFAULT_COORDS
  /\ pointerScreen = DEFAULT_COORDS
  /\ config \in Configs
  /\ scripts = config.scripts
  /\ styles = config.styles
  /\ colls = [c \in CollIds |-> PageFrames(c)]
  /\ frameAttrs = [f \in Frames |-> FrameInit(f)]
  /\ undo = 0
  /\ fault = FALSE
  /\ device = NoDevice
  /\ deviceAttrs = [d \in Devices |-> Dim(d)]
  /\ currentFrame = NoFrame
  /\ readyCanvas = FALSE
  /\ selected = NoPage
  /\ inited = FALSE
  /\ handler = Idle
  /\ calls = <<>>

\* the effect of a page or device handler that ended in world w
Commit(w) ==
  /\ frames' = w.frames
  /\ colls' = w.colls
  /\ frameAttrs' = w.frameAttrs
  /\ undo' = w.undo
  /\ fault' = w.fault
  /\ calls' = w.calls

(* ------------------------------ actions -------------------------------- *)
\* CanvasModule calls init() once the page subsystem is ready
InitCanvas(mainPage) ==
  /\ ~inited
  /\ inited' = TRUE
  /\ selected' = mainPage
  /\ handler' = Invocation("init", mainPage, NoPage, getMainFrame(World, mainPage), 0, NoOptions)
  /\ Commit(init(World, mainPage))
  /\ UNCHANGED <<viewVars, scripts, styles, config, device, deviceAttrs, currentFrame,
                 readyCanvas>>

\* the editor selects another page and emits PagesEvents.select(page, prev)
PageSelect(page) ==
  /\ page # selected
  /\ selected' = page
  /\ handler' = Invocation("_pageUpdated", page, selected, getMainFrame(World, page), 0, NoOptions)
  /\ Commit(_pageUpdated(World, page, selected))
  /\ UNCHANGED <<viewVars, scripts, styles, config, device, deviceAttrs, currentFrame,
                 readyCanvas, inited>>

\* the editor's device changes: change:device
DeviceChange(d) ==
  /\ d # device
  /\ device' = d
  /\ handler' = Invocation("updateDevice", NoPage, NoPage, NoFrame, 0, "change:device")
  /\ Commit(updateDevice([World EXCEPT !.device = d], NoFrame))
  /\ UNCHANGED <<viewVars, scripts, styles, config, deviceAttrs, currentFrame, readyCanvas,
                 selected, inited>>

\* a device's attributes change: device:update
DeviceUpdate(d, k) ==
  /\ deviceAttrs[d] # Dim(k)
  /\ deviceAttrs' = [deviceAttrs EXCEPT ![d] = Dim(k)]
  /\ handler' = Invocation("updateDevice", NoPage, NoPage, NoFrame, 0, "device:update")
  /\ Commit(updateDevice([World EXCEPT !.deviceAttrs[d] = Dim(k)], NoFrame))
  /\ UNCHANGED <<viewVars, scripts, styles, config, device, currentFrame, readyCanvas,
                 selected, inited>>

\* a direct call updateDevice({ frame }) or updateDevice()
UpdateDeviceCall(f) ==
  /\ handler' = Invocation("updateDevice", NoPage, NoPage, f, 0, "call")
  /\ Commit(updateDevice(World, f))
  /\ UNCHANGED <<viewVars, scripts, styles, emVars, inited>>

\* the editor's current frame changes
SetCurrentFrame(f) ==
  /\ f # currentFrame
  /\ currentFrame' = f
  /\ handler' = Idle
  /\ calls' = <<>>
  /\ UNCHANGED <<canvasVars, config, colls, frameAttrs, undo, fault, device, deviceAttrs, readyCanvas,
                 selected, inited>>

\* the canvas view finishes loading
CanvasReady ==
  /\ ~readyCanvas
  /\ readyCanvas' = TRUE
  /\ handler' = Idle
  /\ calls' = <<>>
  /\ UNCHANGED <<canvasVars, config, colls, frameAttrs, undo, fault, device, deviceAttrs, currentFrame,
                 selected, inited>>

\* canvas.set('zoom', v, options)
WriteZoom(v, opt) ==
  LET r == SetZoom(zoom, <<>>, v, opt)
  IN  /\ zoom' = r.zoom
      /\ calls' = r.log
      /\ handler' = Invocation("set:zoom", NoPage, NoPage, NoFrame, v, opt)
      /\ UNCHANGED <<frames, x, y, pointer, pointerScreen, scripts, styles, colls,
                     frameAttrs, undo, fault, emVars, inited>>

\* canvas.set({ x, y }, options)
WriteCoords(nx, ny, opt) ==
  /\ x' = nx
  /\ y' = ny
  /\ calls' = SetCoords(<<>>, nx, ny)
  /\ handler' = Invocation("set:coords", NoPage, NoPage, NoFrame, 0, opt)
  /\ UNCHANGED <<frames, zoom, pointer, pointerScreen, scripts, styles, colls,
                 frameAttrs, undo, fault, emVars, inited>>

\* canvas.set('pointer', c, options)
WritePointer(c, opt) ==
  /\ pointer' = c
  /\ calls' = IF c # pointer THEN onPointerChange(<<>>) ELSE <<>>
  /\ handler' = Invocation("set:pointer", NoPage, NoPage, NoFrame, 0, opt)
  /\ UNCHANGED <<frames, zoom, x, y, pointerScreen, scripts, styles, colls,
                 frameAttrs, undo, fault, emVars, inited>>

\* canvas.set('pointerScreen', c, options)
WritePointerScreen(c, opt) ==
  /\ pointerScreen' = c
  /\ calls' = IF c # pointerScreen THEN onPointerChange(<<>>) ELSE <<>>
  /\ handler' = Invocation("set:pointerScreen", NoPage, NoPage, NoFrame, 0, opt)
  /\ UNCHANGED <<frames, zoom, x, y, pointer, scripts, styles, colls,
                 frameAttrs, undo, fault, emVars, inited>>

\* a page is selected while a listener of the selection events selects page2
PageSelectReentrant(page, page2) ==
  /\ page # selected
  /\ page2 # page
  /\ selected' = page2
  /\ handler' = Invocation("_pageUpdated:reentered", page, selected, getMainFrame(World, page), 0, NoOptions)
  /\ Commit(_pageUpdatedReentered(World, page, selected, page2))
  /\ UNCHANGED <<viewVars, scripts, styles, config, device, deviceAttrs, currentFrame,
                 readyCanvas, inited>>

\* the frame current in the editor when it shows `page`
MainFrameOf(page) == IF page = NoPage THEN NoFrame ELSE getMainFrame(World, page)

\* init() in an editor whose current frame is the main frame of its current page
TiedInit(mainPage) ==
  /\ ~inited
  /\ inited' = TRUE
  /\ selected' = mainPage
  /\ currentFrame' = MainFrameOf(mainPage)
  /\ handler' = Invocation("init", mainPage, NoPage, getMainFrame(World, mainPage), 0, NoOptions)
  /\ Commit(init([World EXCEPT !.currentFrame = MainFrameOf(mainPage)], mainPage))
  /\ UNCHANGED <<viewVars, scripts, styles, config, device, deviceAttrs, readyCanvas>>

\* a page select in an editor whose current frame is the main frame of its current page
TiedPageSelect(page) ==
  /\ page # selected
  /\ selected' = page
  /\ currentFrame' = MainFrameOf(page)
  /\ handler' = Invocation("_pageUpdated", page, selected, getMainFrame(World, page), 0, NoOptions)
  /\ Commit(_pageUpdated([World EXCEPT !.currentFrame = MainFrameOf(page)], page, selected))
  /\ UNCHANGED <<viewVars, scripts, styles, config, device, deviceAttrs, readyCanvas, inited>>

NextCanvas ==
  \/ \E mainPage \in Pages : InitCanvas(mainPage)
  \/ \E page \in Pages : PageSelect(page)
  \/ \E d \in Devices \cup {NoDevice} : DeviceChange(d)
  \/ \E d \in Devices, k \in 1 .. MaxDim : DeviceUpdate(d, k)
  \/ \E f \in Frames \cup {NoFrame} : UpdateDeviceCall(f)
  \/ \E f \in Frames \cup {NoFrame} : SetCurrentFrame(f)
  \/ CanvasReady

NextView ==
  \/ \E v \in ZoomInputs, opt \in WriteOptions : WriteZoom(v, opt)
  \/ \E nx \in 0 .. MaxOffset, ny \in 0 .. MaxOffset, opt \in WriteOptions : WriteCoords(nx, ny, opt)
  \/ \E c \in Coords, opt \in WriteOptions : WritePointer(c, opt)
  \/ \E c \in Coords, opt \in WriteOptions : WritePointerScreen(c, opt)

Next == NextCanvas \/ NextView

Spec == Init /\ [][Next]_vars

\* the page and device side alone, for the config scripts: ['a.js'], styles: []
InitScenario == Init /\ config = [scripts |-> <<"a.js">>, styles |-> <<>>]
SpecCanvas == InitScenario /\ [][NextCanvas]_vars

\* the viewport side alone
SpecView == Init /\ [][NextView]_vars

\* page events with a listener that selects another page during the switch
NextReentry ==
  \/ \E mainPage \in Pages : InitCanvas(mainPage)
  \/ \E page \in Pages : PageSelect(page)
  \/ \E page \in Pages, page2 \in Pages : PageSelectReentrant(page, page2)
  \/ \E d \in Devices \cup {NoDevice} : DeviceChange(d)
  \/ CanvasReady
SpecReentry == InitScenario /\ [][NextReentry]_vars

\* the editor keeps its current frame on the main frame of its current page
NextTied ==
  \/ \E mainPage \in Pages : TiedInit(mainPage)
  \/ \E page \in Pages : TiedPageSelect(page)
  \/ \E d \in Devices \cup {NoDevice} : DeviceChange(d)
  \/ \E d \in Devices, k \in 1 .. MaxDim : DeviceUpdate(d, k)
  \/ CanvasReady
SpecTied == InitScenario /\ [][NextTied]_vars

\* both sides together, every config, on a reduced set of inputs
NextAll ==
  \/ \E mainPage \in Pages : InitCanvas(mainPage)
  \/ \E page \in Pages : PageSelect(page)
  \/ \E d \in Devices \cup {NoDevice} : DeviceChange(d)
  \/ \E f \in {NoFrame, 1} : SetCurrentFrame(f)
  \/ \E v \in {0, MaxZoomIn} : WriteZoom(v, "user")
  \/ \E k \in 0 .. MaxOffset : WriteCoords(k, k, "user")
  \/ \E c \in Coords : WritePointer(c, "user")
  \/ \E c \in Coords : WritePointerScreen(c, "user")
SpecAll == Init /\ [][NextAll]_vars

TypeOK ==
  /\ frames \in CollIds
  /\ zoom \in Int
  /\ undo \in Nat
  /\ device \in Devices \cup {NoDevice}
  /\ currentFrame \in Frames \cup {NoFrame}
  /\ selected \in Pages \cup {NoPage}

(* ------------------------------ properties ----------------------------- *)
SyncOps == {"init", "_pageUpdated", "updateDevice"}
\* the frame the device sync of the last handler resolved
Resolved == IF handler.frame # NoFrame THEN handler.frame ELSE currentFrame
Count(log, op) == Cardinality(PositionsOf(log, op))
DeviceDims == [width |-> deviceAttrs[device].width,
               height |-> deviceAttrs[device].height,
               minHeight |-> deviceAttrs[device].minHeight]

\* C1: after a write of v to zoom and the handlers it triggers, the stored
\* zoom is max(v, 1); hence zoom >= 1 in every state between handlers.
ZoomClamped ==
  /\ handler.op = "set:zoom" => zoom = Max(handler.v, 1)
  /\ zoom >= 1
ZoomClampedWitness ==
  /\ handler.op = "set:zoom"
  /\ handler.v < 1
  /\ zoom = 1

\* C2: a page-select event (page, prev) calls disable exactly once on every
\* frame of prev's collection, and when the canvas is ready every disable call
\* comes after the call of stopDefault.
DisablePrevOnceAfterStop ==
  (handler.op = "_pageUpdated" /\ handler.prev # NoPage) =>
    /\ \A f \in Range(colls[getFrames(handler.prev)]) :
         Cardinality(Positions(calls, "frame.disable", f)) = 1
    /\ readyCanvas =>
         /\ Count(calls, "em.stopDefault") = 1
         /\ \A i \in PositionsOf(calls, "frame.disable") :
              \A j \in PositionsOf(calls, "em.stopDefault") : j < i
DisablePrevOnceAfterStopWitness ==
  /\ handler.op = "_pageUpdated"
  /\ handler.prev = 1
  /\ readyCanvas
  /\ Count(calls, "frame.disable") = 2
  /\ Count(calls, "em.stopDefault") = 1

\* C3: in a page switch every frame of the previous page is disabled before
\* the new collection is installed, and the device sync that follows comes after
\* the install and writes to the new page's main frame only.
DisableBeforeInstallThenSync ==
  (handler.op = "_pageUpdated" /\ handler.prev # NoPage) =>
    /\ Count(calls, "set:frames") = 1
    /\ \A j \in PositionsOf(calls, "set:frames") :
         /\ calls[j].target = getFrames(handler.page)
         /\ \A f \in Range(colls[getFrames(handler.prev)]) :
              \E i \in Positions(calls, "frame.disable", f) : i < j
         /\ \A i \in PositionsOf(calls, "frame.disable") : i < j
         /\ \A k \in PositionsOf(calls, "frame.set") : j < k
    /\ (handler.frame # NoFrame) =>
         /\ \A k \in PositionsOf(calls, "frame.set") : calls[k].target = getMainFrame(World, handler.page)
         /\ device # NoDevice =>
              /\ Count(calls, "frame.set") = 1
              /\ frameAttrs[getMainFrame(World, handler.page)] = DeviceDims
DisableBeforeInstallThenSyncWitness ==
  /\ handler.op = "_pageUpdated"
  /\ handler.prev = 1
  /\ handler.page = 2
  /\ device # NoDevice
  /\ frames = 2
  /\ Len(calls) >= 5
  /\ calls[Len(calls)] = Call("frame.set", 3, "noUndo")
  /\ frameAttrs[3] = DeviceDims

\* C4: after init the active collection is the collection of the editor's
\* current page, after a page-select event it is the collection of the page
\* selected, and no collection ever changes its member frames.
ActiveIsCurrentPage ==
  /\ frames \in CollIds
  /\ inited => frames = getFrames(selected)
  /\ handler.op = "_pageUpdated" => frames = getFrames(handler.page)
  /\ colls = [c \in CollIds |-> PageFrames(c)]
ActiveIsCurrentPageWitness ==
  /\ inited
  /\ handler.op = "_pageUpdated"
  /\ handler.prev = 1
  /\ handler.page = 2
  /\ frames = 2
  /\ colls[1] = <<1, 2>>

\* C5: init installs the main page's collection, and the main page's main
\* frame gets the selected device's dimensions, or keeps its own when no device
\* is selected.
InitPost ==
  [][(handler'.op = "init" /\ ~inited) =>
       /\ frames' = getFrames(handler'.page)
       /\ getMainFrame(World, handler'.page) # NoFrame =>
            IF device # NoDevice
            THEN frameAttrs'[getMainFrame(World, handler'.page)] = DeviceDims
            ELSE frameAttrs'[getMainFrame(World, handler'.page)] =
                 frameAttrs[getMainFrame(World, handler'.page)]]_vars
InitPostWitness ==
  /\ handler.op = "init"
  /\ device # NoDevice
  /\ handler.page = 1
  /\ currentFrame = 2
  /\ frames = 1
  /\ frameAttrs[1] = DeviceDims
  /\ frameAttrs[2] = FrameInit(2)

\* C6: a device sync that resolves a frame and a device acts on the explicit
\* frame if given, else on the editor's current frame; that frame gets the
\* device's width, height and minHeight in one write flagged noUndo, and the
\* undo history gains no entry.
SyncCopiesUntracked ==
  [][(handler'.op \in SyncOps /\ Resolved' # NoFrame /\ device' # NoDevice) =>
       /\ frameAttrs'[Resolved'] = DeviceDims'
       /\ \A f \in Frames \ {Resolved'} : frameAttrs'[f] = frameAttrs[f]
       /\ Count(calls', "frame.set") = 1
       /\ \A k \in PositionsOf(calls', "frame.set") :
            calls'[k].target = Resolved' /\ calls'[k].opt = "noUndo"
       /\ undo' = undo]_vars
SyncCopiesUntrackedWitness ==
  /\ handler.op = "updateDevice"
  /\ handler.frame = NoFrame
  /\ currentFrame = 2
  /\ device # NoDevice
  /\ frameAttrs[2] = DeviceDims
  /\ calls = <<Call("frame.set", 2, "noUndo")>>
  /\ undo = 0

\* C7: a device sync with no frame resolved or no device selected changes no
\* frame attribute and raises no error; and any step writes a frame's three
\* dimensions together or not at all.
SyncNoopWhenMissing ==
  [][/\ (handler'.op \in SyncOps /\ (Resolved' = NoFrame \/ device' = NoDevice)) =>
          /\ frameAttrs' = frameAttrs
          /\ Count(calls', "frame.set") = 0
          /\ undo' = undo
          /\ ~fault'
     /\ \A f \in Frames :
          \/ frameAttrs'[f] = frameAttrs[f]
          \/ device' # NoDevice /\ frameAttrs'[f] = DeviceDims']_vars
SyncNoopWhenMissingWitness ==
  /\ handler.op = "updateDevice"
  /\ handler.frame = 1
  /\ device = NoDevice
  /\ currentFrame = 2
  /\ calls = <<>>
  /\ ~fault

\* C8: a page-select event or init whose page has no main frame changes no
\* frame's dimensions and raises no error, whatever the editor's current frame
\* and device.
NoMainFrameNoop ==
  [][(handler'.op \in {"init", "_pageUpdated"} /\ handler'.frame = NoFrame) =>
       /\ frameAttrs' = frameAttrs
       /\ ~fault']_vars

\* C9: device sync is idempotent: right after a device sync, running it
\* again with the same argument leaves every frame's dimensions as they are.
SyncIdempotent ==
  handler.op \in SyncOps =>
    updateDevice(World, handler.frame).frameAttrs = frameAttrs
SyncIdempotentWitness ==
  /\ handler.op = "updateDevice"
  /\ handler.frame = 3
  /\ device # NoDevice
  /\ Count(calls, "frame.set") = 1
  /\ frameAttrs[3] = DeviceDims
  /\ frameAttrs[3] # FrameInit(3)

\* C10 (as stated): a write of a value below 1 to zoom leaves zoom at 1 and
\* broadcasts the zoom notification exactly once.
ClampNotifiesOnce ==
  (handler.op = "set:zoom" /\ handler.v < 1) =>
    /\ zoom = 1
    /\ Count(calls, "canvas:zoom") = 1

\* C10 (amended): a write of a value below 1 to zoom leaves zoom at 1 and
\* broadcasts the zoom notification exactly twice: first for the clamp
\* correction, then for the write itself.
ClampNotifiesTwice ==
  (handler.op = "set:zoom" /\ handler.v < 1) =>
    /\ zoom = 1
    /\ Count(calls, "canvas:zoom") = 2
    /\ Len(calls) = 2
    /\ calls[2].opt = handler.opt
ClampNotifiesTwiceWitness ==
  /\ handler.op = "set:zoom"
  /\ handler.v = 0
  /\ zoom = 1
  /\ Count(calls, "canvas:zoom") = 2

\* C11 (as stated): every change of the stored zoom, the clamp correction
\* included, broadcasts a zoom notification, and every such notification
\* carries the options of the external write.
ZoomNotesCarryWriteOptions ==
  handler.op = "set:zoom" =>
    /\ Count(calls, "canvas:zoom") = Len(calls)
    /\ (handler.v < 1) => Len(calls) = 2
    /\ \A i \in 1 .. Len(calls) : calls[i].opt = handler.opt

\* C12 (as stated): every coordinates notification and every pointer
\* notification carries the options of the write that triggered it.
ViewNotesCarryWriteOptions ==
  handler.op \in {"set:coords", "set:pointer", "set:pointerScreen"} =>
    \A i \in 1 .. Len(calls) : calls[i].opt = handler.opt

\* C12 (amended): a write publishes one coordinates notification per attribute
\* of x, y it changes and one pointer notification when it changes a pointer
\* attribute; these notifications carry no options.
ViewNotesWithoutOptions ==
  [][/\ handler'.op = "set:coords" =>
          /\ Len(calls') = (IF x' # x THEN 1 ELSE 0) + (IF y' # y THEN 1 ELSE 0)
          /\ \A i \in 1 .. Len(calls') : calls'[i] = Call("canvas:coords", 0, NoOptions)
     /\ handler'.op \in {"set:pointer", "set:pointerScreen"} =>
          /\ Len(calls') = (IF <<pointer', pointerScreen'>> # <<pointer, pointerScreen>> THEN 1 ELSE 0)
          /\ \A i \in 1 .. Len(calls') : calls'[i] = Call("canvas:pointer", 0, NoOptions)]_vars
ViewNotesWithoutOptionsWitness ==
  /\ handler.op = "set:coords"
  /\ handler.opt = "user"
  /\ x = 1
  /\ y = 0
  /\ calls = <<Call("canvas:coords", 0, NoOptions)>>

\* C13: the world and the screen pointer are independent: after a pointer
\* write getPointerCoords(World) is the last value written to pointer and
\* getPointerCoords(Screen) the last written to pointerScreen, each the default
\* before its first write; getPointerCoords() is the world value.
PointersIndependent ==
  /\ getPointerCoords(World_) = DEFAULT_COORDS
  /\ getPointerCoords(Screen_) = DEFAULT_COORDS
  /\ [][/\ \A c \in Coords, opt \in WriteOptions :
             /\ WritePointer(c, opt) =>
                  /\ getPointerCoords(World_)' = c
                  /\ getPointerCoords(Screen_)' = getPointerCoords(Screen_)
             /\ WritePointerScreen(c, opt) =>
                  /\ getPointerCoords(Screen_)' = c
                  /\ getPointerCoords(World_)' = getPointerCoords(World_)
        /\ handler'.op \notin {"set:pointer", "set:pointerScreen"} =>
             /\ getPointerCoords(World_)' = getPointerCoords(World_)
             /\ getPointerCoords(Screen_)' = getPointerCoords(Screen_)
        /\ getPointerCoordsDefault' = getPointerCoords(World_)']_vars
PointersIndependentWitness ==
  /\ handler.op = "set:pointer"
  /\ getPointerCoords(World_) = [x |-> 1, y |-> 1]
  /\ getPointerCoords(Screen_) = DEFAULT_COORDS
  /\ getPointerCoordsDefault = [x |-> 1, y |-> 1]

\* C19: whenever a zoom notification is broadcast the stored zoom is already
\* at least 1.
ZoomNotesSeeClamped ==
  \A i \in PositionsOf(calls, "canvas:zoom") : calls[i].target >= 1
ZoomNotesSeeClampedWitness ==
  /\ handler.op = "set:zoom"
  /\ handler.v = 0 - 1
  /\ Len(calls) = 2
  /\ calls[1].target = 1
  /\ calls[2].target = 1

\* C14 (as stated): the page-switch procedure is never re-entered: within
\* the handling of one page-select event, even when a listener called during
\* the switch selects a page, no second run of the procedure starts (a run
\* starts with em.setSelected) before the first has finished.
SwitchNeverReentered ==
  Count(calls, "em.setSelected") <= 1

\* C15: the constructor stores the config's script and style lists and the
\* default zoom 100, and scripts and styles keep those values through init,
\* page selects, device events and zoom, offset and pointer writes.
ConfigKept ==
  /\ zoom = 100
  /\ [](scripts = config.scripts /\ styles = config.styles)
ConfigKeptWitness ==
  /\ inited
  /\ handler.op = "_pageUpdated"
  /\ device # NoDevice
  /\ zoom = 1
  /\ x = 1
  /\ pointer # DEFAULT_COORDS
  /\ pointerScreen # DEFAULT_COORDS
  /\ scripts = <<"a.js">>
  /\ styles = <<>>

\* C16: the page-switch procedure first clears the selection, then calls
\* stopDefault exactly when the canvas is ready, and both come before every
\* frame.disable and before the install of the new collection.
SwitchPrologue ==
  handler.op = "_pageUpdated" =>
    /\ Len(calls) >= 2
    /\ calls[1] = Call("em.setSelected", 0, NoOptions)
    /\ Count(calls, "em.setSelected") = 1
    /\ Count(calls, "em.stopDefault") = (IF readyCanvas THEN 1 ELSE 0)
    /\ readyCanvas => calls[2] = Call("em.stopDefault", 0, NoOptions)
    /\ \A i \in PositionsOf(calls, "frame.disable") \cup PositionsOf(calls, "set:frames") :
         \A j \in PositionsOf(calls, "em.setSelected") \cup PositionsOf(calls, "em.stopDefault") :
           j < i
SwitchPrologueWitness ==
  /\ handler.op = "_pageUpdated"
  /\ handler.prev = 1
  /\ ~readyCanvas
  /\ Count(calls, "em.stopDefault") = 0
  /\ calls[2] = Call("frame.disable", 1, NoOptions)

\* C17: a page-select event with no previous page disables no frame, installs
\* the new page's collection and runs the device sync on its main frame.
FirstLoadSwitch ==
  (handler.op = "_pageUpdated" /\ handler.prev = NoPage) =>
    /\ Count(calls, "frame.disable") = 0
    /\ Count(calls, "set:frames") = 1
    /\ frames = getFrames(handler.page)
    /\ (device # NoDevice /\ getMainFrame(World, handler.page) # NoFrame) =>
         /\ calls[Len(calls)] = Call("frame.set", getMainFrame(World, handler.page), "noUndo")
         /\ frameAttrs[getMainFrame(World, handler.page)] = DeviceDims
FirstLoadSwitchWitness ==
  /\ handler.op = "_pageUpdated"
  /\ handler.prev = NoPage
  /\ handler.page = 1
  /\ device # NoDevice
  /\ frames = 1
  /\ Count(calls, "frame.disable") = 0
  /\ frameAttrs[1] = DeviceDims

\* C18: when the editor's current frame is always the main frame of the
\* current page, then after any init, page-select, device-change and
\* device-update events the current page's main frame has the selected
\* device's dimensions whenever a device is selected.
MainFrameFollowsDevice ==
  (device # NoDevice /\ selected # NoPage /\ MainFrameOf(selected) # NoFrame) =>
    frameAttrs[MainFrameOf(selected)] = DeviceDims
MainFrameFollowsDeviceWitness ==
  /\ handler.op = "_pageUpdated"
  /\ handler.page = 1
  /\ handler.prev = 2
  /\ device # NoDevice
  /\ deviceAttrs[device] = Dim(2)
  /\ frameAttrs[1] = Dim(2)
  /\ frameAttrs[3] = Dim(2)

\* C20: init, the page-switch procedure and the device sync leave zoom, x, y
\* and both pointers as they are and broadcast no zoom, coordinates or pointer
\* notification.
SyncLeavesViewport ==
  [][handler'.op \in SyncOps =>
       /\ zoom' = zoom
       /\ x' = x
       /\ y' = y
       /\ pointer' = pointer
       /\ pointerScreen' = pointerScreen
       /\ \A i \in 1 .. Len(calls') :
            calls'[i].op \notin {"canvas:zoom", "canvas:coords", "canvas:pointer"}]_vars
SyncLeavesViewportWitness ==
  /\ handler.op = "updateDevice"
  /\ Count(calls, "frame.set") = 1
  /\ zoom = MaxZoomIn
  /\ x = 1
  /\ pointer # DEFAULT_COORDS
  /\ pointerScreen = DEFAULT_COORDS

====
